---------------------------- MODULE Spec2Model ----------------------------
(***************************************************************************)
(* State-machine model of the ODoH client session of odoh-client-rs:       *)
(* ODOHSession::new (target/proxy parsing, config discovery, selection),   *)
(* and ODOHSession::resolve = create_request -> send_request ->            *)
(* parse_response, as written in src/src/odoh.rs and called by             *)
(* src/src/main.rs.                                                        *)
(*                                                                         *)
(* Byte strings produced by the cryptographic library (odoh_rs) and by the *)
(* DNS codec (crate::dns_utils) are modelled symbolically: a sealed value  *)
(* is a record naming the key it was sealed under and its plaintext, and   *)
(* AEAD opening succeeds exactly when the opener's key matches and the     *)
(* bytes are intact.  Entropy drawn by create_query_msg is modelled as a   *)
(* fresh value per draw (an ideal random number generator).                *)
(***************************************************************************)
EXTENDS Naturals, Sequences, FiniteSets, TLC

\* ---------------------------------------------------------------- bounds
\* Longest configuration set the discovery endpoint publishes in the model.
MaxConfigs == 2
\* Number of resolve calls made on one Session.
MaxResolves == 2

\* ------------------------------------------------------- Option / Result
None == <<>>
Some(x) == <<x>>
IsSome(o) == Len(o) = 1
Unwrap(o) == o[1]

Ok(v) == [ok |-> TRUE, val |-> v]
\* An anyhow::Error: the failing call's error kind, and the HTTP status it
\* carries (0 when it carries none).
Error(kind, status) == [ok |-> FALSE, err |-> [kind |-> kind, status |-> status]]

\* ------------------------------------------------------------- constants
QUERY_PATH == "/dns-query"
ODOH_HTTP_HEADER == "application/oblivious-dns-message"
CACHE_CONTROL_VALUE == "no-cache, no-store"
\* Some(1) of ObliviousDoHQueryBody::new(&dns_msg, Some(1))
PADDING_LEN == 1
\* StatusCode::OK
STATUS_OK == 200

\* ------------------------------------------------------------------ Url
\* Url::parse on the address strings of the model.  A parsed Url is its
\* scheme, optional host, path and query pairs.
TargetAddrs == {"https://odoh.example/base", "file:///odoh", "odoh.example"}
ProxyAddrs == {"https://proxy.example/proxy", "proxy.example"}

MkUrl(scheme, host, path) ==
    [scheme |-> scheme, host |-> host, path |-> path, query |-> <<>>]

Url_parse(s) ==
    CASE s = "https://odoh.example/base" ->
            Ok(MkUrl("https", Some("odoh.example"), "/base"))
      [] s = "https://proxy.example/proxy" ->
            Ok(MkUrl("https", Some("proxy.example"), "/proxy"))
      [] s = "file:///odoh" ->
            Ok(MkUrl("file", None, "/odoh"))
      [] OTHER -> Error("UrlParseError", 0)

set_path(url, path) == [url EXCEPT !.path = path]
host_str(url) == url.host
\* RequestBuilder::query: the pairs are appended to the URL's query.
with_query(url, pairs) == [url EXCEPT !.query = @ \o pairs]

\* ------------------------------------------------- configuration discovery
SupportedSuite == [kem_id |-> "X25519", kdf_id |-> "HKDF-SHA256",
                   aead_id |-> "AES-128-GCM"]

MkConfig(aead, pk) ==
    [kem_id |-> "X25519", kdf_id |-> "HKDF-SHA256", aead_id |-> aead,
     public_key |-> pk]

\* The configurations a target may publish: two supported ones with valid
\* keys, a supported one whose key bytes are no valid public key, and one
\* with an unsupported AEAD.
ConfigUniverse ==
    { MkConfig("AES-128-GCM", "pkA"), MkConfig("AES-128-GCM", "pkB"),
      MkConfig("AES-128-GCM", "badkey"), MkConfig("ChaCha20Poly1305", "pkC") }

SeqsUpTo(S, n) == UNION { [1..k -> S] : k \in 0..n }
ConfigSets == SeqsUpTo(ConfigUniverse, MaxConfigs)

IsSupported(c) ==
    /\ c.kem_id = SupportedSuite.kem_id
    /\ c.kdf_id = SupportedSuite.kdf_id
    /\ c.aead_id = SupportedSuite.aead_id

\* odoh_rs::protocol::get_supported_config: the first entry, in publication
\* order, whose algorithm triple is supported.
get_supported_config(odoh_config) ==
    LET idx == { i \in DOMAIN odoh_config : IsSupported(odoh_config[i]) }
    IN  IF idx = {}
        THEN Error("UnsupportedConfigError", 0)
        ELSE Ok(odoh_config[CHOOSE i \in idx : \A j \in idx : i <= j])

\* crate::dns_utils::fetch_odoh_config: what the discovery fetch can return.
FetchOutcomes == { Error("DiscoveryError", 0) } \cup { Ok(cs) : cs \in ConfigSets }

\* --------------------------------------------------------------- DNS codec
\* (domain, query type) pairs a caller passes to resolve.
Questions == { <<"example.com", "A">>, <<"example.org", "AAAA">>,
               <<"example.com", "NOTATYPE">> }
ValidQTypes == {"A", "AAAA"}

\* crate::dns_utils::create_dns_query: the serialized DNS query message.
create_dns_query(domain, qtype) ==
    IF qtype \in ValidQTypes
    THEN Ok(<<"dns-query", domain, qtype>>)
    ELSE Error("EncodingError", 0)

\* A DNS answer message is its answer-record data sequence; on the wire it is
\* the record count followed by the records.
AnswerMessages == { [answers |-> <<>>], [answers |-> <<"1.2.3.4">>] }
DnsEncode(m) == <<Len(m.answers)>> \o m.answers
MalformedDnsBytes == <<2, "1.2.3.4">>

\* crate::dns_utils::parse_dns_answer
parse_dns_answer(bytes) ==
    IF Len(bytes) >= 1 /\ bytes[1] = Len(bytes) - 1
    THEN Ok([answers |-> Tail(bytes)])
    ELSE Error("MalformedResponseError", 0)


\* ------------------------------------------------------ odoh_rs primitives
ValidPublicKeys == {"pkA", "pkB", "pkC"}

\* ObliviousDoHQueryBody::new(&dns_msg, Some(padding_len))
ObliviousDoHQueryBody_new(dns_msg, padding_len) ==
    [dns_msg |-> dns_msg, padding_len |-> padding_len]

\* The secret both ends export from the HPKE context established by the
\* ephemeral key drawn with entropy e against public key pk.
DeriveSecret(pk, e) == [tag |-> "client_secret", pk |-> pk, eph |-> e]

\* odoh_rs::protocol::create_query_msg with the entropy it draws made
\* explicit: (encrypted_query, client_secret).
create_query_msg(config, query, e) ==
    IF config.public_key \notin ValidPublicKeys
    THEN Error("CryptoError", 0)
    ELSE Ok([encrypted_query |->
                [tag |-> "encrypted_query",
                 enc |-> [tag |-> "encapsulated_key", eph |-> e],
                 ct  |-> [tag |-> "ciphertext", pk |-> config.public_key,
                          eph |-> e, pt |-> query]],
             client_secret |-> DeriveSecret(config.public_key, e)])

\* The response key is derived from the client secret and the query body.
ResponseKey(secret, query) == [secret |-> secret, query |-> query]

SealResponse(secret, query, pt) ==
    [tag |-> "encrypted_response", key |-> ResponseKey(secret, query),
     pt |-> pt, integrity |-> "intact"]

\* odoh_rs::protocol::parse_received_response: AEAD opening of the response.
parse_received_response(client_secret, encrypted_response, query) ==
    IF /\ encrypted_response.integrity = "intact"
       /\ encrypted_response.key = ResponseKey(client_secret, query)
    THEN Ok([dns_msg |-> encrypted_response.pt])
    ELSE Error("DecryptionError", 0)

\* ------------------------------------------------------------ the resolver
\* What the target recovers from the bytes it is handed: the query body and
\* the shared secret, when the bytes are an encrypted query.
Decap(body) ==
    IF body.tag = "encrypted_query"
    THEN Some([query |-> body.ct.pt,
               secret |-> DeriveSecret(body.ct.pk, body.ct.eph)])
    ELSE None

\* The response the resolver seals over plaintext pt for received bytes.
ResolverSeal(body, pt) ==
    LET d == Unwrap(Decap(body))
    IN  SealResponse(d.secret, d.query, pt)

\* Every response the resolver can seal for the received bytes.
HonestSeals(body) ==
    IF IsSome(Decap(body))
    THEN { ResolverSeal(body, DnsEncode(a)) : a \in AnswerMessages }
            \cup { ResolverSeal(body, MalformedDnsBytes) }
    ELSE {}

\* Response bodies that are not what the resolver sealed for these bytes:
\* a flipped bit, a truncation, a seal under another client's secret, a seal
\* for another query body, or bytes that are no sealed response at all.
ForgedBodies(body) ==
    LET junk == [tag |-> "junk",
                 key |-> ResponseKey(DeriveSecret("none", 0),
                                     ObliviousDoHQueryBody_new(<<>>, 0)),
                 pt |-> <<0>>, integrity |-> "garbage"]
        a    == [answers |-> <<"1.2.3.4">>]
    IN  IF IsSome(Decap(body))
        THEN LET d == Unwrap(Decap(body))
                 h == ResolverSeal(body, DnsEncode(a))
             IN  { [h EXCEPT !.integrity = "bitflip"],
                   [h EXCEPT !.integrity = "truncated"],
                   SealResponse(DeriveSecret(body.ct.pk, 0), d.query,
                                DnsEncode(a)),
                   SealResponse(d.secret,
                                [d.query EXCEPT !.padding_len = 0],
                                DnsEncode(a)),
                   junk }
        ELSE { junk }

Statuses == {200, 204, 500}

\* What the transport can observe for a request whose body is `body`: the
\* connection fails, a status arrives, and for a 200 the body is read or the
\* read fails.
TransportOutcomes(body) ==
    { [conn |-> FALSE, status |-> 0, body |-> Error("io", 0)] }
    \cup { [conn |-> TRUE, status |-> STATUS_OK, body |-> Error("io", 0)] }
    \cup { [conn |-> TRUE, status |-> s, body |-> Ok(b)] :
             s \in Statuses \ {STATUS_OK}, b \in ForgedBodies(body) }
    \cup { [conn |-> TRUE, status |-> STATUS_OK, body |-> Ok(b)] :
             b \in HonestSeals(body) \cup ForgedBodies(body) }


\* ------------------------------------------------------------------ state
VARIABLES
    new_pc,      \* ODOHSession::new: "start", "fetching", "ok" or "failed"
    new_args,    \* the (target, proxy) arguments new was called with
    new_locals,  \* new's locals target_url and proxy across the fetch
    discovered,  \* what fetch_odoh_config returned, once it has
    new_err,     \* the error new returned, if it failed
    session,     \* the ODOHSession, once constructed
    pc,          \* resolve: "idle", "created", "awaiting", "received",
                 \*          "done" or "failed"
    request,     \* the ODOHRequest owned by resolve / send_request
    response,    \* the ODOHResponse owned by resolve / parse_response
    result,      \* what resolve returned
    trace,       \* history: the stages this resolution has called
    secretH,     \* history: the client secret of this resolution's Request
    statusH,     \* history: the HTTP status this resolution received
    bodyH,       \* history: the response bytes this resolution received
    wire,        \* history: every HTTP request sent, with its Request
    issued,      \* history: every ODOHRequest create_request returned
    rng,         \* entropy draws made so far
    nres,        \* resolve calls made so far
    fetches,     \* history: fetch_odoh_config calls made so far
    finished,    \* history: created Requests whose resolve call has returned
    exit         \* main's exit code and standard output, once it returned

vars == <<new_pc, new_args, new_locals, discovered, new_err, session, pc,
          request, response, result, trace, secretH, statusH, bodyH, wire,
          issued, rng, nres, fetches, finished, exit>>

ctorVars == <<new_pc, new_args, new_locals, discovered, new_err, fetches>>
newVars == <<ctorVars, session>>
resolveVars == <<pc, request, response, result, trace, wire, issued, rng,
                 nres, finished>>
histVars == <<secretH, statusH, bodyH>>

StageOrder == <<"create_request", "send_request", "parse_response">>

Init ==
    /\ new_pc = "start"
    /\ new_args = None
    /\ new_locals = None
    /\ discovered = None
    /\ new_err = None
    /\ session = None
    /\ pc = "idle"
    /\ request = None
    /\ response = None
    /\ result = None
    /\ trace = <<>>
    /\ secretH = None
    /\ statusH = None
    /\ bodyH = None
    /\ wire = <<>>
    /\ issued = <<>>
    /\ rng = 0
    /\ nres = 0
    /\ fetches = 0
    /\ finished = 0
    /\ exit = None

\* ------------------------------------------------------ ODOHSession::new
\* Mutant: an address that does not parse is retried as a bare host name.
SessionProxy_Guess(proxy) ==
    IF IsSome(proxy)
    THEN LET u == Url_parse(Unwrap(proxy))
         IN  IF u.ok THEN Some(u.val)
             ELSE Some(MkUrl("https", Some(Unwrap(proxy)), "/"))
    ELSE None

\* let proxy = if let Some(p) = proxy { Url::parse(p).ok() } else { None };
SessionProxy(proxy) ==
    IF IsSome(proxy)
    THEN LET u == Url_parse(Unwrap(proxy))
         IN  IF u.ok THEN Some(u.val) ELSE None
    ELSE None

\* Mutant: the first published entry is taken without checking its suite.
SessionConfig_Unchecked(odoh_config) ==
    IF odoh_config # <<>>
    THEN Ok(odoh_config[1])
    ELSE get_supported_config(odoh_config)

\* Mutant: the last supported entry is taken instead of the first.
SessionConfig_LastMatch(odoh_config) ==
    LET idx == { i \in DOMAIN odoh_config : IsSupported(odoh_config[i]) }
    IN  IF idx = {}
        THEN Error("UnsupportedConfigError", 0)
        ELSE Ok(odoh_config[CHOOSE i \in idx : \A j \in idx : i >= j])

\* let target_config = get_supported_config(&odoh_config)?;
SessionConfig(odoh_config) == get_supported_config(odoh_config)

\* Mutant: the discovery fetch is issued before the target is parsed.
FetchesAfterParse_Always(n, target_url) == n + 1

\* Url::parse(target)? precedes fetch_odoh_config(target): the fetch is
\* issued only when the target parsed.
FetchesAfterParse(n, target_url) == IF target_url.ok THEN n + 1 ELSE n

\* new, up to the suspension at fetch_odoh_config(target).await
New(target, proxy) ==
    /\ new_pc = "start"
    /\ exit = None
    /\ new_args' = Some([target |-> target, proxy |-> proxy])
    /\ LET target_url == Url_parse(target)
       IN  /\ fetches' = FetchesAfterParse(fetches, target_url)
           /\ IF target_url.ok
              THEN /\ new_locals' = Some([target_url |-> set_path(target_url.val, QUERY_PATH),
                                          proxy |-> SessionProxy(proxy)])
                   /\ new_pc' = "fetching"
                   /\ new_err' = new_err
              ELSE /\ new_locals' = new_locals
                   /\ new_pc' = "failed"
                   /\ new_err' = Some(target_url.err)
    /\ UNCHANGED <<discovered, session, pc, request, response, result, trace,
                   histVars, wire, issued, rng, nres, finished, exit>>

\* new, from the return of fetch_odoh_config to its own return
NewFetched(fetched) ==
    /\ new_pc = "fetching"
    /\ IF fetched.ok
       THEN /\ discovered' = Some(fetched.val)
            /\ LET target_config == SessionConfig(fetched.val)
               IN  IF target_config.ok
                   THEN /\ session' = Some([target |-> Unwrap(new_locals).target_url,
                                            proxy |-> Unwrap(new_locals).proxy,
                                            target_config |-> target_config.val])
                        /\ new_pc' = "ok"
                        /\ new_err' = new_err
                   ELSE /\ session' = session
                        /\ new_pc' = "failed"
                        /\ new_err' = Some(target_config.err)
       ELSE /\ discovered' = discovered
            /\ session' = session
            /\ new_pc' = "failed"
            /\ new_err' = Some(fetched.err)
    /\ new_locals' = None
    /\ UNCHANGED <<new_args, pc, request, response, result, trace, histVars,
                   wire, issued, rng, nres, fetches, finished, exit>>


\* ------------------------------------------------------- create_request
\* Mutant: every request reuses the key material of the first encapsulation.
create_request_reused(s, domain, qtype, e) ==
    LET dns_msg == create_dns_query(domain, qtype)
    IN  IF ~dns_msg.ok
        THEN dns_msg
        ELSE LET query == ObliviousDoHQueryBody_new(dns_msg.val, PADDING_LEN)
                 msg   == create_query_msg(s.target_config, query, 1)
             IN  IF ~msg.ok
                 THEN msg
                 ELSE Ok([query |-> query,
                          client_secret |-> msg.val.client_secret,
                          encrypted_query |-> msg.val.encrypted_query])

\* e is the entropy create_query_msg draws for this call.
create_request(s, domain, qtype, e) ==
    LET dns_msg == create_dns_query(domain, qtype)
    IN  IF ~dns_msg.ok
        THEN dns_msg
        ELSE LET query == ObliviousDoHQueryBody_new(dns_msg.val, PADDING_LEN)
                 msg   == create_query_msg(s.target_config, query, e)
             IN  IF ~msg.ok
                 THEN msg
                 ELSE Ok([query |-> query,
                          client_secret |-> msg.val.client_secret,
                          encrypted_query |-> msg.val.encrypted_query])

\* --------------------------------------------------------- send_request
\* Mutant: the Cache-Control value lacks no-store.
Headers_NoStore ==
    [content_type |-> ODOH_HTTP_HEADER, accept |-> ODOH_HTTP_HEADER,
     cache_control |-> "no-cache"]

Headers ==
    [content_type |-> ODOH_HTTP_HEADER, accept |-> ODOH_HTTP_HEADER,
     cache_control |-> CACHE_CONTROL_VALUE]

\* Mutant: the wrong field of the request is sent as the body.
RequestBody_Secret(req) == req.client_secret

\* builder.body(request.encrypted_query.clone())
RequestBody(req) == req.encrypted_query

\* The HTTP request send_request builds, or the error of host_str().context()
BuildRequest(s, req) ==
    LET host == host_str(s.target)
    IN  IF ~IsSome(host)
        THEN Error("TransportError", 0)
        ELSE LET query == << <<"targethost", Unwrap(host)>>,
                             <<"targetpath", QUERY_PATH>> >>
                 url   == IF IsSome(s.proxy)
                          THEN with_query(Unwrap(s.proxy), query)
                          ELSE s.target
             IN  Ok([method |-> "POST", url |-> url, headers |-> Headers,
                     body |-> RequestBody(req)])

\* Mutant: any 2xx status is accepted (!resp.status().is_success()).
StatusRejected_Non2xx(status) == status \notin 200..299

\* resp.status() != StatusCode::OK
StatusRejected(status) == status # STATUS_OK

\* Mutant: the response is paired with a Request rebuilt from the query body
\* instead of the Request that was sent.
SendResult_Rebuilt(req, o) ==
    IF ~o.conn
    THEN Error("TransportError", 0)
    ELSE IF StatusRejected(o.status)
         THEN Error("TransportError", o.status)
         ELSE IF ~o.body.ok
              THEN Error("TransportError", 0)
              ELSE Ok([request |->
                          [req EXCEPT !.client_secret =
                                          DeriveSecret(req.encrypted_query.ct.pk, 0)],
                       encrypted_response |-> o.body.val])

\* send_request from the return of send() to its own return, for transport
\* outcome o
SendResult(req, o) ==
    IF ~o.conn
    THEN Error("TransportError", 0)
    ELSE IF StatusRejected(o.status)
         THEN Error("TransportError", o.status)
         ELSE IF ~o.body.ok
              THEN Error("TransportError", 0)
              ELSE Ok([request |-> req, encrypted_response |-> o.body.val])

\* Mutant: the request survives the early return.
DropRequest_Kept(req) == Some(req)

\* send_request owns its ODOHRequest argument: an early return drops it.
DropRequest(req) == None

\* -------------------------------------------------------- parse_response
\* Mutant: the response is opened against a query body rebuilt without the
\* request's padding instead of the request's own query body.
parse_response_rebuilt_query(resp) ==
    LET response_body ==
            parse_received_response(resp.request.client_secret,
                                    resp.encrypted_response,
                                    ObliviousDoHQueryBody_new(resp.request.query.dns_msg, 0))
    IN  IF ~response_body.ok
        THEN response_body
        ELSE parse_dns_answer(response_body.val.dns_msg)

\* Mutant: the plaintext is read without authenticating the response.
parse_response_unauthenticated(resp) ==
    parse_dns_answer(resp.encrypted_response.pt)

\* let response_body = parse_received_response(..)?;
\* Ok(parse_dns_answer(&response_body.dns_msg)?)
parse_response(resp) ==
    LET response_body ==
            parse_received_response(resp.request.client_secret,
                                    resp.encrypted_response,
                                    resp.request.query)
    IN  IF ~response_body.ok
        THEN response_body
        ELSE parse_dns_answer(response_body.val.dns_msg)

\* --------------------------------------------------------------- resolve
\* Mutant: a stage's error does not end the resolution.
AfterStage_NoAbort(stage, r) ==
    CASE stage = "create_request" -> "created"
      [] stage = "send_request" -> "received"
      [] stage = "parse_response" -> "done"

\* Mutant: a failed send_request is tried again.
AfterStage_Retry(stage, r) ==
    IF ~r.ok
    THEN IF stage = "send_request" THEN "created" ELSE "failed"
    ELSE CASE stage = "create_request" -> "created"
           [] stage = "send_request" -> "received"
           [] stage = "parse_response" -> "done"

\* The `?` after each stage of resolve: where the resolution goes next.
AfterStage(stage, r) ==
    IF ~r.ok THEN "failed"
    ELSE CASE stage = "create_request" -> "created"
           [] stage = "send_request" -> "received"
           [] stage = "parse_response" -> "done"

\* Mutant: using the Session re-selects its configuration.
SelfRef_Reselect(s) ==
    IF IsSome(s)
    THEN Some([Unwrap(s) EXCEPT !.target_config = MkConfig("AES-128-GCM", "pkB")])
    ELSE s

\* Mutant: using the Session clears its proxy.
SelfRef_DropProxy(s) ==
    IF IsSome(s) THEN Some([Unwrap(s) EXCEPT !.proxy = None]) ELSE s

\* create_request, send_request, parse_response and resolve take &self: the
\* Session they are called on is the Session they leave behind.
SelfRef(s) == s

\* A resolve call has returned.
Returned(p) == p \in {"done", "failed"}

\* Mutant: resolve is called again while a request awaits its response.
ResolveCallable_WhileAwaiting == pc \in {"idle", "done", "failed", "awaiting"}

\* main awaits each resolve call (session.resolve(..).await?): resolve is
\* called only when no earlier call is still running.
ResolveCallable == pc \in {"idle", "done", "failed"}

\* resolve is called and runs create_request
Resolve(domain, qtype) ==
    /\ IsSome(session)
    /\ exit = None
    /\ ResolveCallable
    /\ nres < MaxResolves
    /\ nres' = nres + 1
    /\ LET r == create_request(Unwrap(session), domain, qtype, rng + 1)
       IN  /\ pc' = AfterStage("create_request", r)
           /\ IF r.ok
              THEN /\ request' = Some(r.val)
                   /\ result' = None
                   /\ secretH' = Some(r.val.client_secret)
                   /\ issued' = Append(issued, r.val)
                   /\ rng' = rng + 1
              ELSE /\ request' = None
                   /\ result' = Some(r)
                   /\ secretH' = None
                   /\ UNCHANGED <<issued, rng>>
    /\ response' = None
    /\ trace' = <<"create_request">>
    /\ statusH' = None
    /\ bodyH' = None
    /\ session' = SelfRef(session)
    /\ UNCHANGED <<ctorVars, wire, finished, exit>>

\* send_request up to the suspension at send.await
SendRequest ==
    /\ pc = "created"
    /\ trace' = Append(trace, "send_request")
    /\ LET b == BuildRequest(Unwrap(session), Unwrap(request))
       IN  IF b.ok
           THEN /\ wire' = Append(wire, [http |-> b.val, req |-> Unwrap(request)])
                /\ pc' = "awaiting"
                /\ UNCHANGED <<request, result>>
           ELSE /\ pc' = AfterStage("send_request", b)
                /\ result' = Some(b)
                /\ request' = DropRequest(Unwrap(request))
                /\ wire' = wire
    /\ finished' = IF Returned(pc') THEN finished + 1 ELSE finished
    /\ session' = SelfRef(session)
    /\ UNCHANGED <<ctorVars, response, histVars, issued, rng, nres, exit>>

\* The body of the HTTP request awaiting its response: the last one sent.
InFlightBody == wire[Len(wire)].http.body

\* send_request from the return of send.await to its own return
SendReturns(o) ==
    /\ pc = "awaiting"
    /\ statusH' = IF o.conn THEN Some(o.status) ELSE None
    /\ LET r == SendResult(Unwrap(request), o)
       IN  /\ pc' = AfterStage("send_request", r)
           /\ IF r.ok
              THEN /\ response' = Some(r.val)
                   /\ request' = None
                   /\ bodyH' = Some(r.val.encrypted_response)
                   /\ result' = result
              ELSE /\ response' = response
                   /\ request' = DropRequest(Unwrap(request))
                   /\ bodyH' = bodyH
                   /\ result' = Some(r)
    /\ finished' = IF Returned(pc') THEN finished + 1 ELSE finished
    /\ session' = SelfRef(session)
    /\ UNCHANGED <<ctorVars, trace, secretH, wire, issued, rng, nres, exit>>

\* parse_response, which consumes the ODOHResponse
ParseResponse ==
    /\ pc = "received"
    /\ trace' = Append(trace, "parse_response")
    /\ LET r == parse_response(Unwrap(response))
       IN  /\ pc' = AfterStage("parse_response", r)
           /\ result' = Some(r)
    /\ response' = None
    /\ finished' = IF Returned(pc') THEN finished + 1 ELSE finished
    /\ session' = SelfRef(session)
    /\ UNCHANGED <<ctorVars, request, histVars, wire, issued, rng, nres, exit>>

\* ------------------------------------------------------------------ main
\* What main prints for the message resolve returned.
Printed(message) ==
    IF message.answers = <<>>
    THEN <<"No result found for domain">>
    ELSE <<"Domain:", "records:">> \o message.answers

\* Mutant: main reports the error and returns Ok(()).
ExitOf_Swallowed(r) ==
    IF r.ok
    THEN [code |-> 0, out |-> Printed(r.val), stderr |-> None]
    ELSE [code |-> 0, out |-> <<>>, stderr |-> Some(r.err)]

\* main returns r: Err ends the process with exit code 1 and the error on
\* standard error, Ok(message) with exit code 0 after printing.
ExitOf(r) ==
    IF r.ok
    THEN [code |-> 0, out |-> Printed(r.val), stderr |-> None]
    ELSE [code |-> 1, out |-> <<>>, stderr |-> Some(r.err)]

\* let config = Config::from_path(config_file)?;  fails
ConfigLoadFails ==
    /\ exit = None
    /\ new_pc = "start"
    /\ exit' = Some(ExitOf(Error("ConfigError", 0)))
    /\ UNCHANGED <<newVars, resolveVars, histVars>>

\* ODOHSession::new(..).await? returned an error
MainNewFailed ==
    /\ exit = None
    /\ new_pc = "failed"
    /\ exit' = Some(ExitOf([ok |-> FALSE, err |-> Unwrap(new_err)]))
    /\ UNCHANGED <<newVars, resolveVars, histVars>>

\* session.resolve(domain, qtype).await? returned; main prints and returns
MainResolved ==
    /\ exit = None
    /\ Returned(pc)
    /\ exit' = Some(ExitOf(Unwrap(result)))
    /\ UNCHANGED <<newVars, resolveVars, histVars>>

Next ==
    \/ \E t \in TargetAddrs, p \in {None} \cup { Some(a) : a \in ProxyAddrs } :
            New(t, p)
    \/ \E f \in FetchOutcomes : NewFetched(f)
    \/ \E q \in Questions : Resolve(q[1], q[2])
    \/ SendRequest
    \/ /\ pc = "awaiting"
       /\ \E o \in TransportOutcomes(InFlightBody) : SendReturns(o)
    \/ ParseResponse
    \/ ConfigLoadFails
    \/ MainNewFailed
    \/ MainResolved

Spec == Init /\ [][Next]_vars


\* ============================================================== properties
Terminal == Returned(pc)
Range(f) == { f[i] : i \in DOMAIN f }
IsPrefix(a, b) == Len(a) <= Len(b) /\ \A i \in DOMAIN a : a[i] = b[i]
HasParam(url, name) == \E i \in DOMAIN url.query : url.query[i][1] = name
TargetParams(host) ==
    << <<"targethost", host>>, <<"targetpath", QUERY_PATH>> >>
SupportedIdx(cs) == { i \in DOMAIN cs : IsSupported(cs[i]) }

\* C1: every query POST is addressed to the proxy, with query parameters
\* targethost=<target host> and targetpath=/dns-query, when a proxy address
\* was configured; and directly to the target at path /dns-query, with no
\* targethost/targetpath parameter, when none was configured.
C1_ProxyAddressing ==
    \A k \in DOMAIN wire :
        LET url    == wire[k].http.url
            args   == Unwrap(new_args)
            target == Url_parse(args.target).val
        IN  /\ wire[k].http.method = "POST"
            /\ IF IsSome(args.proxy)
               THEN LET proxy == Url_parse(Unwrap(args.proxy))
                    IN  /\ proxy.ok
                        /\ url = with_query(proxy.val,
                                            TargetParams(Unwrap(target.host)))
               ELSE /\ url.scheme = target.scheme
                    /\ url.host = target.host
                    /\ url.path = QUERY_PATH
                    /\ ~HasParam(url, "targethost")
                    /\ ~HasParam(url, "targetpath")

\* C2: once a status other than 200 has been received, the resolution has
\* failed with a transport error carrying that status, no ODOHResponse was
\* constructed and parse_response was not called.
C2_Non200Fails ==
    (IsSome(statusH) /\ Unwrap(statusH) # STATUS_OK) =>
        /\ pc = "failed"
        /\ result = Some(Error("TransportError", Unwrap(statusH)))
        /\ response = None
        /\ bodyH = None
        /\ "parse_response" \notin Range(trace)

C2_Witness ==
    /\ statusH = Some(500)
    /\ pc = "failed"
    /\ trace = <<"create_request", "send_request">>

\* C3: when the discovered configuration set (empty or not) holds no entry
\* with a supported suite, construction has failed with
\* UnsupportedConfigError, and no encrypted query was created or sent.
C3_UnsupportedFailsBeforeQuery ==
    (IsSome(discovered) /\ SupportedIdx(Unwrap(discovered)) = {}) =>
        /\ new_pc = "failed"
        /\ new_err = Some([kind |-> "UnsupportedConfigError", status |-> 0])
        /\ session = None
        /\ nres = 0
        /\ issued = <<>>
        /\ wire = <<>>

C3_Witness ==
    /\ IsSome(discovered)
    /\ Len(Unwrap(discovered)) = MaxConfigs
    /\ SupportedIdx(Unwrap(discovered)) = {}
    /\ new_pc = "failed"

\* C4: when the discovered set holds a supported entry, the Session's
\* target_config is the supported entry of least index; when it holds none,
\* there is no Session and the error is UnsupportedConfigError.
C4_FirstSupportedSelected ==
    IsSome(discovered) =>
        LET cs  == Unwrap(discovered)
            idx == SupportedIdx(cs)
        IN  IF idx # {}
            THEN /\ IsSome(session)
                 /\ \E i \in idx :
                        /\ \A j \in 1..(i - 1) : ~IsSupported(cs[j])
                        /\ Unwrap(session).target_config = cs[i]
            ELSE /\ session = None
                 /\ IsSome(new_err)
                 /\ Unwrap(new_err).kind = "UnsupportedConfigError"

C4_Witness ==
    /\ IsSome(discovered)
    /\ IsSome(session)
    /\ LET cs == Unwrap(discovered)
       IN  /\ Len(cs) = 2
           /\ IsSupported(cs[1]) /\ IsSupported(cs[2]) /\ cs[1] # cs[2]
           /\ Unwrap(session).target_config = cs[1]

\* The stage an error kind is raised by.
StageOf(kind) ==
    CASE kind \in {"EncodingError", "CryptoError"} -> "create_request"
      [] kind = "TransportError" -> "send_request"
      [] kind \in {"DecryptionError", "MalformedResponseError"} -> "parse_response"

\* C5: the stages of a resolution are called in the order create_request,
\* send_request, parse_response, each at most once; a resolution that has
\* an error has stopped at the stage that raised it; and a DNS message is
\* returned only after all three stages ran.
C5_StagesInOrderFirstErrorEnds ==
    /\ IsPrefix(trace, StageOrder)
    /\ pc = "idle" => trace = <<>> /\ result = None
    /\ pc = "created" => trace = <<"create_request">> /\ result = None
    /\ pc = "awaiting" =>
            trace = <<"create_request", "send_request">> /\ result = None
    /\ pc = "received" =>
            /\ trace = <<"create_request", "send_request">>
            /\ result = None
            /\ IsSome(response)
    /\ Terminal => IsSome(result)
    /\ IsSome(result) =>
            IF Unwrap(result).ok
            THEN pc = "done" /\ trace = StageOrder
            ELSE /\ pc = "failed"
                 /\ trace[Len(trace)] = StageOf(Unwrap(result).err.kind)

C5_Witness ==
    /\ pc = "failed"
    /\ trace = <<"create_request", "send_request">>
    /\ statusH = None
    /\ Len(wire) = nres

\* C6: when the response received with status 200 is what the resolver
\* sealed over answer message a for the encrypted query it was sent, resolve
\* returns a.
C6_RoundTrip ==
    \A a \in AnswerMessages :
        ( /\ Terminal
          /\ IsSome(bodyH)
          /\ IsSome(Decap(InFlightBody))
          /\ Unwrap(bodyH) = ResolverSeal(InFlightBody, DnsEncode(a)) )
        => result = Some(Ok(a))

C6_Witness ==
    /\ pc = "done"
    /\ statusH = Some(STATUS_OK)
    /\ result = Some(Ok([answers |-> <<"1.2.3.4">>]))

\* C7: when the response bytes handed to parse_response are not a response
\* the resolver sealed for this Request, parse_response fails with
\* DecryptionError and returns no DNS message.
C7_TamperedFails ==
    ( /\ Terminal
      /\ IsSome(bodyH)
      /\ Unwrap(bodyH) \notin HonestSeals(wire[Len(wire)].req.encrypted_query) )
    => result = Some(Error("DecryptionError", 0))

C7_Witness ==
    /\ pc = "failed"
    /\ IsSome(bodyH)
    /\ Unwrap(bodyH).integrity = "bitflip"
    /\ result = Some(Error("DecryptionError", 0))

\* C8: any two Requests created on the Session differ in client secret, in
\* encapsulated key and in encrypted query.
C8_SecretNonReuse ==
    \A i, j \in DOMAIN issued :
        i # j =>
            /\ issued[i].client_secret # issued[j].client_secret
            /\ issued[i].encrypted_query.enc # issued[j].encrypted_query.enc
            /\ issued[i].encrypted_query # issued[j].encrypted_query

C8_Witness ==
    /\ Len(issued) = 2
    /\ issued[1].query = issued[2].query

\* Every value an HTTP request puts on the wire: the body and its parts, and
\* the texts of the URL, the query parameters and the headers.
Text(t) == [tag |-> "text", val |-> t]
WireTerms(h) ==
    {h.body, h.body.enc, h.body.ct}
    \cup { Text(h.url.scheme), Text(h.url.path) }
    \cup { Text(h.url.host[i]) : i \in DOMAIN h.url.host }
    \cup { Text(h.url.query[i][2]) : i \in DOMAIN h.url.query }
    \cup { Text(h.headers[n]) : n \in DOMAIN h.headers }

\* C9: the body of every HTTP request sent is exactly the encrypted_query of
\* the Request it was sent for, and no part of any request sent is the
\* client secret of any Request.
C9_SecretNeverTransmitted ==
    \A k \in DOMAIN wire :
        /\ wire[k].http.body = wire[k].req.encrypted_query
        /\ \A n \in DOMAIN issued :
               issued[n].client_secret \notin WireTerms(wire[k].http)

C9_Witness ==
    /\ Len(wire) = 2
    /\ IsSome(Unwrap(session).proxy)

\* The client secrets held by a live ODOHRequest or ODOHResponse.
LiveSecrets ==
    { Unwrap(request).client_secret : x \in { y \in {1} : IsSome(request) } }
    \cup { Unwrap(response).request.client_secret :
             x \in { y \in {1} : IsSome(response) } }

\* C10: once resolve has returned, by success or by any error, no live
\* ODOHRequest or ODOHResponse holds the client secret of its Request.
C10_SecretDroppedOnReturn ==
    (Terminal /\ IsSome(secretH)) => Unwrap(secretH) \notin LiveSecrets

C10_Witness ==
    /\ pc = "failed"
    /\ IsSome(secretH)
    /\ statusH = Some(204)


\* The supported entry of least index of a configuration set that has one.
FirstSupported(cs) ==
    cs[CHOOSE i \in SupportedIdx(cs) : \A j \in SupportedIdx(cs) : i <= j]

\* C11: at most one discovery fetch is ever issued; once the Session exists
\* or a resolve call was made, exactly one was, construction has succeeded,
\* and the Session's config is still the one selected from that discovery,
\* whatever the resolve calls made since returned.
C11_DiscoveryOncePerSession ==
    /\ fetches <= 1
    /\ (IsSome(session) \/ nres > 0 \/ issued # <<>>) =>
            /\ fetches = 1
            /\ new_pc = "ok"
            /\ IsSome(discovered)
            /\ IsSome(session)
            /\ SupportedIdx(Unwrap(discovered)) # {}
            /\ Unwrap(session).target_config = FirstSupported(Unwrap(discovered))

C11_Witness ==
    /\ nres = 2
    /\ finished = 2
    /\ pc = "failed"
    /\ fetches = 1
    /\ Len(Unwrap(discovered)) = 2

\* C12: once the Session exists, no step changes its target, proxy or
\* target_config.
C12_SessionReadOnly ==
    [][IsSome(session) => session' = session]_vars

C12_Witness ==
    /\ IsSome(session)
    /\ IsSome(Unwrap(session).proxy)
    /\ nres = 2
    /\ pc = "done"

\* C13: the created Requests whose resolve call has not returned number 0
\* or 1, and 1 exactly while a resolve call is between create_request and
\* its return.
C13_AtMostOneOutstanding ==
    /\ finished <= Len(issued)
    /\ Len(issued) <= finished + 1
    /\ (Len(issued) = finished + 1) <=> (pc \in {"created", "awaiting", "received"})

C13_Witness ==
    /\ Len(issued) = 2
    /\ finished = 1
    /\ pc = "awaiting"

\* C15: every HTTP request sent carries Content-Type and Accept set to the
\* ODoH media type and Cache-Control set to "no-cache, no-store".
C15_RequestHeaders ==
    \A k \in DOMAIN wire :
        LET h == wire[k].http.headers
        IN  /\ h.content_type = "application/oblivious-dns-message"
            /\ h.accept = "application/oblivious-dns-message"
            /\ h.cache_control = "no-cache, no-store"

C15_Witness ==
    /\ Len(wire) >= 1
    /\ Unwrap(session).proxy = None
    /\ wire[1].http.url.query = <<>>

\* C16: when main has returned, its exit code is non-zero exactly when the
\* configuration load, the construction of the Session or resolve failed;
\* with exit code 0 resolve succeeded and the output is the answer records,
\* or the no-result message when there are none.
C16_ExitCode ==
    IsSome(exit) =>
        LET e      == Unwrap(exit)
            failed == \/ new_pc \in {"start", "failed"}
                      \/ (IsSome(result) /\ ~Unwrap(result).ok)
        IN  /\ (e.code # 0) <=> failed
            /\ e.code = 0 =>
                   /\ pc = "done"
                   /\ Unwrap(result).ok
                   /\ LET answers == Unwrap(result).val.answers
                      IN  e.out = IF answers = <<>>
                                  THEN <<"No result found for domain">>
                                  ELSE <<"Domain:", "records:">> \o answers

C16_Witness ==
    /\ IsSome(exit)
    /\ Unwrap(exit).code = 0
    /\ Unwrap(exit).out = <<"No result found for domain">>

\* C17: no Request is sent twice and every request sent is for a Request
\* create_request returned; at most one request is sent per resolve call;
\* and a resolution is about to send only while it holds a Request not yet
\* sent, so none is sent again after a failure.
C17_NoRetry ==
    /\ \A k, l \in DOMAIN wire : wire[k].req = wire[l].req => k = l
    /\ \A k \in DOMAIN wire : wire[k].req \in Range(issued)
    /\ Len(wire) <= nres
    /\ pc = "created" =>
            /\ IsSome(request)
            /\ \A k \in DOMAIN wire : wire[k].req # Unwrap(request)
    /\ pc = "awaiting" =>
            /\ IsSome(request)
            /\ wire[Len(wire)].req = Unwrap(request)

C17_Witness ==
    /\ pc = "failed"
    /\ statusH = Some(500)
    /\ nres = 1
    /\ Len(wire) = 1

\* C18: an ODOHResponse exists only after status 200 and a body were
\* received for a request that was sent, it holds that body, and the Request
\* it holds is the Request that was created and sent, unchanged.
C18_ResponsePairing ==
    IsSome(response) =>
        LET r == Unwrap(response)
        IN  /\ statusH = Some(STATUS_OK)
            /\ bodyH = Some(r.encrypted_response)
            /\ wire # <<>>
            /\ wire[Len(wire)].req = r.request
            /\ wire[Len(wire)].http.body = r.request.encrypted_query
            /\ issued[Len(issued)] = r.request
            /\ secretH = Some(r.request.client_secret)

C18_Witness ==
    /\ pc = "received"
    /\ IsSome(response)
    /\ nres = 2

C20_SessionOnlyAfterAllSteps ==
    /\ IsSome(session) =>
            /\ Url_parse(Unwrap(new_args).target).ok
            /\ fetches = 1
            /\ IsSome(discovered)
            /\ SupportedIdx(Unwrap(discovered)) # {}
            /\ new_pc = "ok"
    /\ (IsSome(new_args) /\ ~Url_parse(Unwrap(new_args).target).ok) =>
            /\ fetches = 0
            /\ discovered = None
            /\ new_pc = "failed"
            /\ new_err = Some([kind |-> "UrlParseError", status |-> 0])
    /\ new_pc = "fetching" => (fetches = 1 /\ discovered = None /\ session = None)
    /\ new_pc \in {"start", "fetching", "failed"} =>
            /\ session = None
            /\ nres = 0
            /\ issued = <<>>
            /\ wire = <<>>

C20_Witness ==
    /\ new_pc = "failed"
    /\ Unwrap(new_err).kind = "UrlParseError"
    /\ fetches = 0
    /\ IsSome(exit)

=============================================================================
